---- MODULE Spec2Model ----
(***************************************************************************)
(* Model of dev/airflow_perf/scheduler_dag_execution_timing.py:            *)
(* ShortCircuitExecutorMixin (the completion tracker wrapped around an     *)
(* executor), the persistence rows it reads (DagRun, TaskInstance) and     *)
(* main (the benchmark driver with its trial loop).                        *)
(***************************************************************************)
EXTENDS Integers, FiniteSets, Sequences, TLC

\* ------------------------------------------------------------------ bounds
\* --num-runs: the number of DagRuns required of every watched dag.
NumRuns == 2
\* --repeat: the number of trials.
Repeat == 2

\* ------------------------------------------------------------------ inputs
\* The dags of the DagBag; dag_ids, the CLI argument, is a subset of them.
DagIds == {"d1", "d2"}
\* dag.tasks of each dag: d2 is a dag without tasks.
TaskIds(dag_id) == IF dag_id = "d1" THEN {"t1", "t2"} ELSE {}
\* The task ids the keys of a dag's events carry: those of its tasks, and for a
\* dag without tasks that of a task it no longer has.
KeyTaskIds(dag_id) == IF TaskIds(dag_id) = {} THEN {"t1"} ELSE TaskIds(dag_id)
\* The logical dates next_dagrun_info yields up to the dag's end_date.
LogicalDates == 1..NumRuns
\* dag.end_date of a watched dag: the date of the NumRuns-th run, or a later one.
EndDates == {NumRuns, NumRuns + 1}
\* --num-runs as given: click takes any integer, 0 included.
RunCounts == 0..NumRuns
\* --repeat as given: no trial, one trial, or as many as the bound.
Repeats == {0, 1, Repeat}
\* TaskInstanceState, as far as line 86 tells states apart.
SUCCESS == "success"
QUEUED == "queued"
FAILED == "failed"
\* The states an executor reports through change_state.
EventStates == {SUCCESS, FAILED}
None == "None"
\* The info passed along with a state: the default of change_state(key, state, info=None).
Infos == {None}
\* How a change_state call got its run: not at all, from the cache, from DagRun.find.
NoLookup == "none"
FromCache == "cache"
FromFind == "find"
\* job_runner = None (line 122): no runner object.
NoRunner == 0
\* The base executor before any change_state call.
NoEvent == [key |-> <<>>, state |-> None, info |-> None]
\* A change_state call that logged nothing.
NoLog == <<>>
\* [scheduler] num_runs of the configuration, the default of
\* SchedulerJobRunner(num_runs=...): -1 is "no limit".
ConfNumRuns == {-1, 2}
\* TaskInstanceKey (dag_id, task_id, logical_date, try_number).
EventKeys == UNION {{<<d, t, ld, 1>> : t \in KeyTaskIds(d), ld \in LogicalDates} : d \in DagIds}

VARIABLES
  pc,                 \* where main is
  dag_ids,            \* the CLI argument dag_ids
  repeat,             \* the CLI option --repeat
  pre_create_dag_runs,    \* the CLI flag --pre-create-dag-runs
  end_date,           \* dag.end_date of every watched dag
  count,              \* the trial loop's variable (line 300)
  times,              \* the list of recorded durations (line 293)
  report,             \* what the summary printed (lines 320-323)
  job_runner,         \* main's local job_runner, read by code_to_test
  num_runs,           \* SchedulerJobRunner.num_runs of every runner built
  loop_count,         \* passes made by the running scheduler loop
  conf_num_runs,      \* [scheduler] num_runs
  executor_job_runner,    \* executor.job_runner
  executor_scheduler_job, \* executor.scheduler_job
  num_runs_per_dag,   \* executor.num_runs_per_dag
  dags_to_watch,      \* executor.dags_to_watch: dag_id -> [waiting_for, runs]
  dag_run,            \* DagRun rows: <<dag_id, logical_date>>
  task_instance,      \* TaskInstance rows: <<dag_id, logical_date, task_id>> -> state
  is_paused,          \* DagModel.is_paused
  base_event,         \* what the base executor's change_state last received
  log,                \* what the last change_state call logged
  raised,             \* whether the last change_state call raised
  lookup,             \* history: how the last change_state call got its run
  notified            \* history: runs reported while complete, since the last reset

vars == <<pc, dag_ids, repeat, pre_create_dag_runs, end_date, lookup, count, times, report, job_runner, num_runs, loop_count, conf_num_runs,
          executor_job_runner, executor_scheduler_job, num_runs_per_dag,
          dags_to_watch, dag_run, task_instance, is_paused, base_event, log,
          raised, notified>>

driver_vars == <<dag_ids, repeat, pre_create_dag_runs, end_date, count, times, report, job_runner, conf_num_runs,
                 executor_scheduler_job, num_runs_per_dag, is_paused>>
db_vars == <<dag_run, task_instance>>
tracker_vars == <<dags_to_watch, base_event, log, raised, lookup, notified>>

\* ------------------------------------------------------------------ helpers
Restrict(f, S) == [x \in S |-> f[x]]

RECURSIVE SumWaiting(_, _)
SumWaiting(dtw, S) ==
  IF S = {} THEN 0
  ELSE LET d == CHOOSE x \in S : TRUE
       IN dtw[d].waiting_for + SumWaiting(dtw, S \ {d})

\* sum(map(attrgetter("waiting_for"), self.dags_to_watch.values()))
waiting_on(dtw) == SumWaiting(dtw, DOMAIN dtw)

\* ------------------------------------------------------------------ persistence
\* DagRun.find(dag_id=..., logical_date=...): the rows found.
DagRun_find(dag_id, logical_date) == {r \in dag_run : r = <<dag_id, logical_date>>}

\* run.get_task_instances(): the task instance rows of the run, read now.
get_task_instances(dag_id, logical_date) ==
  {k \in DOMAIN task_instance : k[1] = dag_id /\ k[2] = logical_date}

\* Line 86 scanning the task instances read when the run was cached: a run that
\* is in the cache was incomplete then.
all_success_stale(dag_id, logical_date) ==
  /\ logical_date \notin dags_to_watch[dag_id].runs
  /\ \A k \in get_task_instances(dag_id, logical_date) : task_instance[k] = SUCCESS

\* Line 86 asking for at least one task instance as well.
all_success_nonempty(dag_id, logical_date) ==
  /\ get_task_instances(dag_id, logical_date) # {}
  /\ \A k \in get_task_instances(dag_id, logical_date) : task_instance[k] = SUCCESS

\* all(t.state == TaskInstanceState.SUCCESS for t in run.get_task_instances())
all_success(dag_id, logical_date) ==
  \A k \in get_task_instances(dag_id, logical_date) : task_instance[k] = SUCCESS

\* reset_dag's two deletes, for a set of dags.
delete_runs(dags) == {r \in dag_run : r[1] \notin dags}
delete_task_instances(dags) ==
  Restrict(task_instance, {k \in DOMAIN task_instance : k[1] \notin dags})

\* create_dag_runs(dag, num_runs, session) for a set of dags: the rows of the
\* runs created, and of their task instances, none of which has run.
create_dag_runs(dags, n) == {<<d, ld>> : d \in dags, ld \in 1..n}
create_task_instances(dags, n) ==
  [k \in UNION {{<<d, ld, t>> : ld \in 1..n, t \in TaskIds(d)} : d \in dags} |-> QUEUED]

\* Lines 263-266: the logical date of the n-th run next_dagrun_info computes.
nth_logical_date(n) == IF n > 1 THEN n ELSE 1

\* Line 269 accepting every end date.
end_date_ok_any(dag_id, n) == TRUE

\* Line 269: end_date != next_info.logical_date, negated.
end_date_ok(dag_id, n) == end_date[dag_id] = nth_logical_date(n)

\* History only: the run of the key is in persistence with every task instance
\* in SUCCESS while its dag is watched, when an event for it arrives.
ReportedComplete(key) ==
  /\ key[1] \in DOMAIN dags_to_watch
  /\ <<key[1], key[3]>> \in dag_run
  /\ \A k \in DOMAIN task_instance :
        (k[1] = key[1] /\ k[2] = key[3]) => task_instance[k] = SUCCESS

\* ------------------------------------------------------------------ tracker
\* A reset that keeps the entries it finds (a setdefault instead of a rebuild).
reset_keep(dag_ids_to_watch) ==
  [dag_id \in dag_ids_to_watch |->
     IF dag_id \in DOMAIN dags_to_watch
     THEN dags_to_watch[dag_id]
     ELSE [waiting_for |-> num_runs_per_dag, runs |-> {}]]

\* ShortCircuitExecutorMixin.reset: the new dags_to_watch.
reset(dag_ids_to_watch) ==
  [dag_id \in dag_ids_to_watch |-> [waiting_for |-> num_runs_per_dag, runs |-> {}]]

\* The forwarding moved below the early return of line 73.
super_change_state_watched(key, state, info) ==
  IF key[1] \in DOMAIN dags_to_watch
  THEN [key |-> key, state |-> state, info |-> info]
  ELSE base_event

\* super().change_state(key, state, info=info): what the base executor receives.
super_change_state(key, state, info) == [key |-> key, state |-> state, info |-> info]

\* Lines 79-80: whether the run comes from the cache or from DagRun.find.
run_lookup(dag_id, logical_date) ==
  IF logical_date \in dags_to_watch[dag_id].runs THEN FromCache ELSE FromFind

\* Lines 79-84: the run cache of the dag after the cache-or-load.
runs_after_load(dag_id, logical_date) ==
  dags_to_watch[dag_id].runs \cup {logical_date}

\* Lines 87-91 without the pop of line 87: the complete run stays in the cache.
watch_after_complete_no_pop(dag_id, logical_date) ==
  LET left == dags_to_watch[dag_id].waiting_for - 1
  IN IF left = 0
     THEN Restrict(dags_to_watch, DOMAIN dags_to_watch \ {dag_id})
     ELSE [dags_to_watch EXCEPT ![dag_id] =
             [waiting_for |-> left,
              runs |-> runs_after_load(dag_id, logical_date)]]

\* Lines 87-91 with the test of line 90 written "< 0".
watch_after_complete_late(dag_id, logical_date) ==
  LET left == dags_to_watch[dag_id].waiting_for - 1
  IN IF left < 0
     THEN Restrict(dags_to_watch, DOMAIN dags_to_watch \ {dag_id})
     ELSE [dags_to_watch EXCEPT ![dag_id] =
             [waiting_for |-> left,
              runs |-> dags_to_watch[dag_id].runs \ {logical_date}]]

\* Lines 87-91: dags_to_watch after a run was judged complete.
watch_after_complete(dag_id, logical_date) ==
  LET left == dags_to_watch[dag_id].waiting_for - 1
  IN IF left = 0
     THEN Restrict(dags_to_watch, DOMAIN dags_to_watch \ {dag_id})
     ELSE [dags_to_watch EXCEPT ![dag_id] =
             [waiting_for |-> left,
              runs |-> runs_after_load(dag_id, logical_date) \ {logical_date}]]

\* Line 93 testing that some dag is done instead of all of them.
all_runs_complete_any(dtw) == DOMAIN dtw # DagIds

\* Line 93: not self.dags_to_watch
all_runs_complete(dtw) == DOMAIN dtw = {}

STOPPING == <<"STOPPING SCHEDULER -- all runs complete">>
WAITING(n) == <<"WAITING ON %d RUNS", n>>

\* change_state with the early return of lines 72-73 moved below the lookup of
\* lines 79-84: the run of an unwatched dag is looked up too.
change_state_lookup_first(key, state, info) ==
  LET dag_id == key[1]
      logical_date == key[3]
  IN /\ base_event' = super_change_state(key, state, info)
     /\ notified' = IF ReportedComplete(key)
                    THEN [notified EXCEPT ![dag_id] = @ \cup {logical_date}]
                    ELSE notified
     /\ IF dag_id \notin DOMAIN dags_to_watch
        THEN /\ raised' = (DagRun_find(dag_id, logical_date) = {})
             /\ log' = NoLog
             /\ lookup' = FromFind
             /\ UNCHANGED <<dags_to_watch, num_runs>>
        ELSE IF /\ logical_date \notin dags_to_watch[dag_id].runs
                /\ DagRun_find(dag_id, logical_date) = {}
        THEN \* DagRun.find(...)[0] on an empty list: IndexError
             /\ raised' = TRUE
             /\ log' = NoLog
             /\ lookup' = FromFind
             /\ UNCHANGED <<dags_to_watch, num_runs>>
        ELSE IF all_success(dag_id, logical_date)
        THEN LET dtw == watch_after_complete(dag_id, logical_date)
             IN /\ dags_to_watch' = dtw
                /\ lookup' = run_lookup(dag_id, logical_date)
                /\ IF all_runs_complete(dtw)
                   THEN /\ log' = STOPPING
                        /\ IF executor_job_runner = NoRunner
                           THEN raised' = TRUE /\ UNCHANGED num_runs
                           ELSE /\ raised' = FALSE
                                /\ num_runs' = [num_runs EXCEPT ![executor_job_runner] = 1]
                   ELSE /\ log' = WAITING(waiting_on(dtw))
                        /\ raised' = FALSE
                        /\ UNCHANGED num_runs
        ELSE /\ dags_to_watch' = [dags_to_watch EXCEPT ![dag_id].runs =
                                    runs_after_load(dag_id, logical_date)]
             /\ log' = WAITING(waiting_on(dags_to_watch))
             /\ lookup' = run_lookup(dag_id, logical_date)
             /\ raised' = FALSE
             /\ UNCHANGED num_runs

\* change_state with the test of lines 93-96 made before the early return of
\* lines 72-73: with dags_to_watch empty every call reports completion again.
change_state_stop_first(key, state, info) ==
  LET dag_id == key[1]
      logical_date == key[3]
  IN /\ base_event' = super_change_state(key, state, info)
     /\ notified' = IF ReportedComplete(key)
                    THEN [notified EXCEPT ![dag_id] = @ \cup {logical_date}]
                    ELSE notified
     /\ IF all_runs_complete(dags_to_watch)
        THEN /\ raised' = (executor_job_runner = NoRunner)
             /\ log' = STOPPING
             /\ lookup' = NoLookup
             /\ num_runs' = IF executor_job_runner = NoRunner THEN num_runs
                            ELSE [num_runs EXCEPT ![executor_job_runner] = 1]
             /\ UNCHANGED dags_to_watch
        ELSE IF dag_id \notin DOMAIN dags_to_watch
        THEN /\ raised' = FALSE
             /\ log' = NoLog
             /\ lookup' = NoLookup
             /\ UNCHANGED <<dags_to_watch, num_runs>>
        ELSE IF /\ logical_date \notin dags_to_watch[dag_id].runs
                /\ DagRun_find(dag_id, logical_date) = {}
        THEN \* DagRun.find(...)[0] on an empty list: IndexError
             /\ raised' = TRUE
             /\ log' = NoLog
             /\ lookup' = FromFind
             /\ UNCHANGED <<dags_to_watch, num_runs>>
        ELSE IF all_success(dag_id, logical_date)
        THEN LET dtw == watch_after_complete(dag_id, logical_date)
             IN /\ dags_to_watch' = dtw
                /\ lookup' = run_lookup(dag_id, logical_date)
                /\ IF all_runs_complete(dtw)
                   THEN /\ log' = STOPPING
                        /\ IF executor_job_runner = NoRunner
                           THEN raised' = TRUE /\ UNCHANGED num_runs
                           ELSE /\ raised' = FALSE
                                /\ num_runs' = [num_runs EXCEPT ![executor_job_runner] = 1]
                   ELSE /\ log' = WAITING(waiting_on(dtw))
                        /\ raised' = FALSE
                        /\ UNCHANGED num_runs
        ELSE /\ dags_to_watch' = [dags_to_watch EXCEPT ![dag_id].runs =
                                    runs_after_load(dag_id, logical_date)]
             /\ log' = WAITING(waiting_on(dags_to_watch))
             /\ lookup' = run_lookup(dag_id, logical_date)
             /\ raised' = FALSE
             /\ UNCHANGED num_runs

\* ShortCircuitExecutorMixin.change_state(key, state, info)
change_state(key, state, info) ==
  LET dag_id == key[1]
      logical_date == key[3]
  IN /\ base_event' = super_change_state(key, state, info)
     /\ notified' = IF ReportedComplete(key)
                    THEN [notified EXCEPT ![dag_id] = @ \cup {logical_date}]
                    ELSE notified
     /\ IF dag_id \notin DOMAIN dags_to_watch
        THEN /\ raised' = FALSE
             /\ log' = NoLog
             /\ lookup' = NoLookup
             /\ UNCHANGED <<dags_to_watch, num_runs>>
        ELSE IF /\ logical_date \notin dags_to_watch[dag_id].runs
                /\ DagRun_find(dag_id, logical_date) = {}
        THEN \* DagRun.find(...)[0] on an empty list: IndexError
             /\ raised' = TRUE
             /\ log' = NoLog
             /\ lookup' = FromFind
             /\ UNCHANGED <<dags_to_watch, num_runs>>
        ELSE IF all_success(dag_id, logical_date)
        THEN LET dtw == watch_after_complete(dag_id, logical_date)
             IN /\ dags_to_watch' = dtw
                /\ lookup' = run_lookup(dag_id, logical_date)
                /\ IF all_runs_complete(dtw)
                   THEN /\ log' = STOPPING
                        /\ IF executor_job_runner = NoRunner
                           THEN raised' = TRUE /\ UNCHANGED num_runs
                           ELSE /\ raised' = FALSE
                                /\ num_runs' = [num_runs EXCEPT ![executor_job_runner] = 1]
                   ELSE /\ log' = WAITING(waiting_on(dtw))
                        /\ raised' = FALSE
                        /\ UNCHANGED num_runs
        ELSE /\ dags_to_watch' = [dags_to_watch EXCEPT ![dag_id].runs =
                                    runs_after_load(dag_id, logical_date)]
             /\ log' = WAITING(waiting_on(dags_to_watch))
             /\ lookup' = run_lookup(dag_id, logical_date)
             /\ raised' = FALSE
             /\ UNCHANGED num_runs

\* ------------------------------------------------------------------ driver
\* main, lines 255-293: pause every dag, reset the watched dags, check their
\* end dates (sys.exit leaves the session uncommitted), pre-create their runs if
\* asked to, build the executor (whose __init__ calls reset), the job and its runner.
MainSetup ==
  /\ pc = "main"
  /\ IF \E d \in dag_ids : ~end_date_ok(d, NumRuns)
     THEN /\ pc' = "exit"
          /\ UNCHANGED <<is_paused, dag_run, task_instance, num_runs_per_dag, dags_to_watch,
                         notified, num_runs, job_runner, executor_job_runner, times>>
     ELSE /\ is_paused' = [d \in DagIds |-> d \notin dag_ids]
          /\ dag_run' = delete_runs(dag_ids) \cup
                          (IF pre_create_dag_runs THEN create_dag_runs(dag_ids, NumRuns) ELSE {})
          /\ task_instance' =
               (IF pre_create_dag_runs THEN create_task_instances(dag_ids, NumRuns) ELSE <<>>)
                 @@ delete_task_instances(dag_ids)
          /\ num_runs_per_dag' = NumRuns
          /\ dags_to_watch' = [dag_id \in dag_ids |-> [waiting_for |-> NumRuns, runs |-> {}]]
          /\ notified' = [d \in DagIds |-> {}]
          /\ num_runs' = (1 :> conf_num_runs)
          /\ job_runner' = 1
          /\ executor_job_runner' = 1
          /\ times' = <<>>
          /\ pc' = IF repeat > 0 THEN "trial" ELSE "summary"
  /\ UNCHANGED <<dag_ids, repeat, pre_create_dag_runs, end_date, count, report, loop_count,
                 conf_num_runs, executor_scheduler_job, base_event, log, raised, lookup>>

\* Lines 300-311: the head of one trial.
TrialSetup ==
  /\ pc = "trial"
  /\ count < repeat
  /\ IF count = 0
     THEN /\ dag_run' = delete_runs(dag_ids)
          /\ task_instance' = delete_task_instances(dag_ids)
          /\ dags_to_watch' = reset(dag_ids)
          /\ notified' = [d \in DagIds |-> {}]
          /\ num_runs' = ((count + 2) :> conf_num_runs) @@ num_runs
          /\ job_runner' = count + 2
          /\ executor_scheduler_job' = count + 2
     ELSE UNCHANGED <<dag_run, task_instance, dags_to_watch, notified, num_runs,
                      job_runner, executor_scheduler_job>>
  /\ pc' = "timed"
  /\ UNCHANGED <<dag_ids, repeat, pre_create_dag_runs, end_date, count, times, report,
                 loop_count, conf_num_runs, executor_job_runner, num_runs_per_dag, is_paused,
                 base_event, log, raised, lookup>>

\* Line 312, code_to_test: run_job(job=job_runner.job, execute_callable=job_runner._execute)
code_to_test ==
  /\ pc = "timed"
  /\ pc' = "running"
  /\ loop_count' = 0
  /\ UNCHANGED <<driver_vars, db_vars, tracker_vars, num_runs, executor_job_runner>>

\* Lines 312-313 with the append in a finally clause: a trial that raised is
\* recorded too and the loop goes on.
Record_finally ==
  /\ pc \in {"recording", "failed"}
  /\ count < repeat
  /\ times' = Append(times, count + 1)
  /\ count' = count + 1
  /\ pc' = IF count + 1 < repeat THEN "trial" ELSE "summary"
  /\ UNCHANGED <<dag_ids, repeat, pre_create_dag_runs, end_date, report, job_runner, num_runs,
                 loop_count, conf_num_runs, executor_job_runner, executor_scheduler_job,
                 num_runs_per_dag, is_paused, db_vars, tracker_vars>>

\* Line 313 written as an assignment of a one-element list.
Record_overwrite ==
  /\ pc = "recording"
  /\ times' = <<count + 1>>
  /\ count' = count + 1
  /\ pc' = IF count + 1 < repeat THEN "trial" ELSE "summary"
  /\ UNCHANGED <<dag_ids, repeat, pre_create_dag_runs, end_date, report, job_runner, num_runs,
                 loop_count, conf_num_runs, executor_job_runner, executor_scheduler_job,
                 num_runs_per_dag, is_paused, db_vars, tracker_vars>>

\* Lines 313-315: the duration is appended, the loop goes on.
Record ==
  /\ pc = "recording"
  /\ times' = Append(times, count + 1)
  /\ count' = count + 1
  /\ pc' = IF count + 1 < repeat THEN "trial" ELSE "summary"
  /\ UNCHANGED <<dag_ids, repeat, pre_create_dag_runs, end_date, report, job_runner, num_runs, loop_count, conf_num_runs,
                 executor_job_runner, executor_scheduler_job, num_runs_per_dag,
                 is_paused, db_vars, tracker_vars>>

\* Lines 317-326: the summary; times[0] of an empty list raises IndexError.
Summary ==
  /\ pc = "summary"
  /\ IF Len(times) > 1
     THEN report' = "mean_stdev" /\ pc' = "done"
     ELSE IF Len(times) = 1
     THEN report' = "single" /\ pc' = "done"
     ELSE report' = report /\ pc' = "failed"
  /\ UNCHANGED <<dag_ids, repeat, pre_create_dag_runs, end_date, count, times, job_runner, num_runs, loop_count, conf_num_runs,
                 executor_job_runner, executor_scheduler_job, num_runs_per_dag,
                 is_paused, db_vars, tracker_vars>>

\* ------------------------------------------------------------------ scheduler loop
\* The scheduler creates the next DagRun of an unpaused dag, with its task
\* instances, unless --pre-create-dag-runs turned that off (lines 243-244).
CreateRun(dag_id) ==
  /\ pc = "running"
  /\ ~is_paused[dag_id]
  /\ ~pre_create_dag_runs
  /\ LET ld == Cardinality({r \in dag_run : r[1] = dag_id}) + 1
     IN /\ ld \in LogicalDates
        /\ ld <= end_date[dag_id]
        /\ dag_run' = dag_run \cup {<<dag_id, ld>>}
        /\ task_instance' =
             [k \in {<<dag_id, ld, t>> : t \in TaskIds(dag_id)} |-> QUEUED] @@ task_instance
  /\ UNCHANGED <<pc, driver_vars, tracker_vars, num_runs, loop_count, executor_job_runner>>

\* A task instance finishes: its row goes to SUCCESS.
TaskSucceeds(k) ==
  /\ pc = "running"
  /\ k \in DOMAIN task_instance
  /\ task_instance[k] = QUEUED
  /\ task_instance' = [task_instance EXCEPT ![k] = SUCCESS]
  /\ UNCHANGED <<pc, dag_run, driver_vars, tracker_vars, num_runs, loop_count,
                 executor_job_runner>>

\* The executor reports a task's state change during the loop; an exception of
\* change_state ends the loop and propagates out of run_job and main.
ExecutorEvent(key, state, info) ==
  /\ pc = "running"
  /\ change_state(key, state, info)
  /\ pc' = IF raised' THEN "failed" ELSE pc
  /\ UNCHANGED <<driver_vars, db_vars, loop_count, executor_job_runner>>

\* The end of one scheduler pass: the runner's loop counts the pass and stops
\* once num_runs > 0 passes were made. The pass counter is compared with num_runs
\* only, so it is kept up to num_runs, and not at all while num_runs sets no limit.
LoopPassEnd ==
  /\ pc = "running"
  /\ LET n == IF num_runs[job_runner] > 0 /\ loop_count < num_runs[job_runner]
              THEN loop_count + 1 ELSE loop_count
     IN /\ loop_count' = n
        /\ pc' = IF num_runs[job_runner] > 0 /\ n >= num_runs[job_runner]
                 THEN "recording" ELSE "running"
  /\ UNCHANGED <<driver_vars, db_vars, tracker_vars, num_runs, executor_job_runner>>

\* ------------------------------------------------------------------ specification
Init ==
  /\ pc = "main"
  /\ dag_ids = {"d1"}
  /\ repeat \in Repeats
  /\ pre_create_dag_runs \in BOOLEAN
  /\ end_date \in [dag_ids -> EndDates]
  /\ lookup = NoLookup
  /\ count = 0
  /\ times = <<>>
  /\ report = None
  /\ job_runner = NoRunner
  /\ num_runs = <<>>
  /\ loop_count = 0
  /\ conf_num_runs \in ConfNumRuns
  /\ executor_job_runner = NoRunner
  /\ executor_scheduler_job = NoRunner
  /\ num_runs_per_dag = 0
  /\ dags_to_watch = <<>>
  /\ dag_run = {}
  /\ task_instance = <<>>
  /\ is_paused = [d \in DagIds |-> FALSE]
  /\ base_event = NoEvent
  /\ log = NoLog
  /\ raised = FALSE
  /\ notified = [d \in DagIds |-> {}]

Next ==
  \/ MainSetup
  \/ TrialSetup
  \/ code_to_test
  \/ Record
  \/ Summary
  \/ \E d \in DagIds : CreateRun(d)
  \/ \E k \in DOMAIN task_instance : TaskSucceeds(k)
  \/ \E key \in EventKeys, state \in EventStates, info \in Infos :
       ExecutorEvent(key, state, info)
  \/ LoopPassEnd

Spec == Init /\ [][Next]_vars

\* ------------------------------------------------------------------ the executor alone
\* The executor as main builds and attaches it (lines 255-284) for one watched
\* dag, d1 or the taskless d2, and any --num-runs, with the end date that passes
\* the check of line 269, under a scheduler loop that is not told to stop.
InitAnyCount ==
  /\ pc = "running"
  /\ dag_ids \in {{"d1"}, {"d2"}}
  /\ repeat = Repeat
  /\ pre_create_dag_runs = FALSE
  /\ num_runs_per_dag \in RunCounts
  /\ end_date = [d \in dag_ids |-> nth_logical_date(num_runs_per_dag)]
  /\ lookup = NoLookup
  /\ count = 0
  /\ times = <<>>
  /\ report = None
  /\ job_runner = 1
  /\ num_runs = (1 :> -1)
  /\ loop_count = 0
  /\ conf_num_runs = -1
  /\ executor_job_runner = 1
  /\ executor_scheduler_job = NoRunner
  /\ dags_to_watch = [dag_id \in dag_ids |-> [waiting_for |-> num_runs_per_dag, runs |-> {}]]
  /\ dag_run = {}
  /\ task_instance = <<>>
  /\ is_paused = [d \in DagIds |-> d \notin dag_ids]
  /\ base_event = NoEvent
  /\ log = NoLog
  /\ raised = FALSE
  /\ notified = [d \in DagIds |-> {}]

\* The same with --num-runs at the bound, and reset callable at any time.
InitTracker == InitAnyCount /\ num_runs_per_dag = NumRuns

\* executor.reset(dag_ids_to_watch), called on the executor at any time.
ResetCall(dag_ids_to_watch) ==
  /\ pc = "running"
  /\ dags_to_watch' = reset(dag_ids_to_watch)
  /\ notified' = [d \in DagIds |-> {}]
  /\ UNCHANGED <<pc, driver_vars, db_vars, num_runs, loop_count, executor_job_runner,
                 base_event, log, raised, lookup>>

NextTracker ==
  \/ \E ids \in SUBSET DagIds \ {{}} : ResetCall(ids)
  \/ \E d \in DagIds : CreateRun(d)
  \/ \E k \in DOMAIN task_instance : TaskSucceeds(k)
  \/ \E key \in EventKeys, state \in EventStates, info \in Infos :
       ExecutorEvent(key, state, info)

SpecTracker == InitTracker /\ [][NextTracker]_vars

\* The executor under any --num-runs. With a run count of 0 waiting_for falls
\* without end: events are followed until it is NumRuns below zero.
NextAnyCount ==
  \/ \E ids \in SUBSET DagIds \ {{}} : ResetCall(ids)
  \/ \E d \in DagIds : CreateRun(d)
  \/ \E k \in DOMAIN task_instance : TaskSucceeds(k)
  \/ \E key \in EventKeys, state \in EventStates, info \in Infos :
       /\ \A d \in DOMAIN dags_to_watch : dags_to_watch[d].waiting_for > -NumRuns
       /\ ExecutorEvent(key, state, info)

SpecAnyCount == InitAnyCount /\ [][NextAnyCount]_vars

\* ------------------------------------------------------------------ fairness
\* The scheduler keeps making passes, creates the runs, the tasks finish, the
\* executor delivers their events, and main goes on from one line to the next.
FairSpec ==
  /\ Spec
  /\ WF_vars(MainSetup) /\ WF_vars(TrialSetup) /\ WF_vars(code_to_test)
  /\ WF_vars(Record) /\ WF_vars(Summary) /\ WF_vars(LoopPassEnd)
  /\ \A d \in DagIds : WF_vars(CreateRun(d))
  /\ \A key \in EventKeys : WF_vars(TaskSucceeds(<<key[1], key[3], key[2]>>))
  /\ \A key \in EventKeys : WF_vars(ExecutorEvent(key, SUCCESS, None))

\* ------------------------------------------------------------------ claims
\* The runs of a dag that are in persistence with every task instance in SUCCESS.
CompleteRuns(d) ==
  {r \in dag_run : r[1] = d /\ \A k \in DOMAIN task_instance :
                                 (k[1] = d /\ k[2] = r[2]) => task_instance[k] = SUCCESS}

\* How far waiting_for of a dag was counted down since the last reset.
Counted(d) ==
  num_runs_per_dag - (IF d \in DOMAIN dags_to_watch THEN dags_to_watch[d].waiting_for ELSE 0)

\* The stop instruction is set on the runner the executor knows.
Stopped == executor_job_runner \in DOMAIN num_runs /\ num_runs[executor_job_runner] = 1

\* dags_to_watch as a reset to the given dags leaves it.
FreshWatch(ids) == [d \in ids |-> [waiting_for |-> NumRuns, runs |-> {}]]

\* C1: the stop instruction is set only after every watched dag has had NumRuns
\* distinct runs with all task instances in SUCCESS, and waiting_for is counted
\* down at most once per distinct complete run.
C1_StopOnlyAfterDistinctRuns ==
  pc # "main" =>
    /\ Stopped => \A d \in dag_ids : Cardinality(CompleteRuns(d)) >= NumRuns
    /\ \A d \in dag_ids : Counted(d) <= Cardinality(CompleteRuns(d))

\* C2: once NumRuns distinct runs of a dag have been reported while complete,
\* the dag is absent from dags_to_watch.
C2_RequiredRunsRemoveDag ==
  \A d \in DagIds : Cardinality(notified[d]) >= NumRuns => d \notin DOMAIN dags_to_watch

\* A dag is gone from dags_to_watch with exactly NumRuns distinct runs reported complete.
C2_Witness ==
  \E d \in DagIds : Cardinality(notified[d]) = NumRuns /\ d \notin DOMAIN dags_to_watch

\* C3: a change_state call reports global completion (logs it and sets the stop
\* instruction) if and only if that call empties dags_to_watch.
C3_ReportedByTheEmptyingCall ==
  [][\A key \in EventKeys, state \in EventStates, info \in Infos :
       ExecutorEvent(key, state, info) =>
         /\ (log' = STOPPING) <=> (DOMAIN dags_to_watch # {} /\ DOMAIN dags_to_watch' = {})
         /\ (log' = STOPPING) => num_runs'[executor_job_runner] = 1
         /\ (log' # STOPPING) => num_runs' = num_runs]_vars

\* The last change_state call emptied dags_to_watch and reported it.
C3_Witness == log = STOPPING /\ DOMAIN dags_to_watch = {} /\ Stopped

\* C4: an event for a run already reported complete, whose dag is still watched,
\* raises nothing and leaves the dag's waiting_for as it is.
C4_RedeliveryLeavesWaitingFor ==
  [][\A key \in EventKeys, state \in EventStates, info \in Infos :
       (/\ ExecutorEvent(key, state, info)
        /\ key[1] \in DOMAIN dags_to_watch
        /\ key[3] \in notified[key[1]])
       => /\ ~raised'
          /\ key[1] \in DOMAIN dags_to_watch'
          /\ dags_to_watch'[key[1]].waiting_for = dags_to_watch[key[1]].waiting_for]_vars

\* C5: the runner whose loop runs in a trial is the executor's job_runner.
C5_RunnerIsExecutorsRunner == pc = "running" => job_runner = executor_job_runner

\* C6: once dags_to_watch is empty in a running trial, the loop ends and main
\* reaches its end.
C6_TrialTerminates == (pc = "running" /\ DOMAIN dags_to_watch = {}) ~> (pc = "done")

\* C7: at the start of every trial's timed region the watched dags have no runs
\* and no task instances, and dags_to_watch is fresh.
C7_FreshAtEveryTrial ==
  pc = "timed" =>
    /\ \A r \in dag_run : r[1] \notin dag_ids
    /\ \A k \in DOMAIN task_instance : k[1] \notin dag_ids
    /\ dags_to_watch = FreshWatch(dag_ids)

\* C8: every change_state call hands its key, state and info to the base
\* executor, whatever the tracker then does with the event.
C8_EveryEventForwarded ==
  [][\A key \in EventKeys, state \in EventStates, info \in Infos :
       ExecutorEvent(key, state, info) =>
         base_event' = [key |-> key, state |-> state, info |-> info]]_vars

\* An event that arrived after dags_to_watch was emptied reached the base executor.
C8_Witness ==
  /\ DOMAIN dags_to_watch = {}
  /\ Stopped
  /\ log = NoLog
  /\ base_event # NoEvent

\* C9: reset(dag_ids) leaves exactly the given dags, each with waiting_for =
\* num_runs_per_dag and an empty cache, from any state and also when repeated.
C9_ResetIsFull ==
  [][\A ids \in SUBSET DagIds \ {{}} :
       ResetCall(ids) => dags_to_watch' = FreshWatch(ids)]_vars

\* dags_to_watch is fresh although the last change_state call emptied it.
C9_Witness == log = STOPPING /\ dags_to_watch = FreshWatch(dag_ids)

\* C10: an event for a run of a watched dag that persistence does not hold
\* raises nothing and leaves dags_to_watch as it is.
C10_MissingRunDeferred ==
  [][\A key \in EventKeys, state \in EventStates, info \in Infos :
       (/\ ExecutorEvent(key, state, info)
        /\ key[1] \in DOMAIN dags_to_watch
        /\ <<key[1], key[3]>> \notin dag_run)
       => /\ ~raised'
          /\ DOMAIN dags_to_watch' = DOMAIN dags_to_watch
          /\ \A d \in DOMAIN dags_to_watch :
               dags_to_watch'[d].waiting_for = dags_to_watch[d].waiting_for]_vars

\* C11: with --pre-create-dag-runs, when a trial's scheduler loop is about to
\* start every watched dag has exactly NumRuns runs in persistence.
C11_PreCreatedAtLoopStart ==
  (pre_create_dag_runs /\ pc = "timed") =>
    \A d \in dag_ids : Cardinality({r \in dag_run : r[1] = d}) = NumRuns

\* C12: when the end date of a watched dag is not the logical date of its
\* NumRuns-th run, main ends in its setup with the error exit: no trial is set
\* up, no scheduler loop and no timer is started, no duration is recorded.
C12_MismatchExitsInSetup ==
  (\E d \in dag_ids : end_date[d] # NumRuns) =>
    /\ pc \in {"main", "exit"}
    /\ times = <<>>
    /\ count = 0
    /\ loop_count = 0
    /\ job_runner = NoRunner

\* main has left through sys.exit.
C12_Witness == pc = "exit" /\ \E d \in dag_ids : end_date[d] # NumRuns

\* C13: when main reaches its end after repeat trials, times holds exactly repeat
\* durations, the i-th being that of trial i; times only ever grows by an append
\* at its end; the summary is mean and standard deviation only when times has
\* more than one entry, and the single value otherwise.
C13_OneDurationPerTrial ==
  /\ [](pc = "done" =>
         /\ Len(times) = repeat
         /\ \A i \in 1..Len(times) : times[i] = i
         /\ report = IF Len(times) > 1 THEN "mean_stdev" ELSE "single")
  /\ [](report = "mean_stdev" => Len(times) > 1)
  /\ [][\/ times' = times
        \/ Len(times') = Len(times) + 1 /\ SubSeq(times', 1, Len(times)) = times]_vars

\* main is at its end after more than one trial, with mean and deviation reported.
C13_Witness ==
  pc = "done" /\ repeat > 1 /\ Len(times) = repeat /\ report = "mean_stdev"

\* C14: when a change_state call raises in the scheduler loop of a trial, main
\* ends with that failure: no duration is appended for the trial (times keeps one
\* entry per earlier trial), and nothing runs afterwards.
C14_RaisingLoopAbortsMain ==
  /\ [](raised => (pc = "failed" /\ count < repeat /\ Len(times) = count))
  /\ [][raised => (pc' = "failed" /\ times' = times /\ count' = count)]_vars

\* The loop of the second trial raised: the first trial's duration is all there is.
C14_Witness == raised /\ pc = "failed" /\ count = 1 /\ times = <<1>>

\* C15: an event for a run of a watched dag that is in persistence without any
\* task instance counts the run as complete at once: the call leaves the run out
\* of the cache and takes one off the dag's waiting_for (removing the dag at 0).
C15_TasklessRunCompletes ==
  [][\A key \in EventKeys, state \in EventStates, info \in Infos :
       (/\ ExecutorEvent(key, state, info)
        /\ key[1] \in DOMAIN dags_to_watch
        /\ <<key[1], key[3]>> \in dag_run
        /\ get_task_instances(key[1], key[3]) = {})
       => /\ ~raised'
          /\ IF dags_to_watch[key[1]].waiting_for = 1
             THEN key[1] \notin DOMAIN dags_to_watch'
             ELSE /\ key[1] \in DOMAIN dags_to_watch'
                  /\ dags_to_watch'[key[1]].waiting_for = dags_to_watch[key[1]].waiting_for - 1
                  /\ key[3] \notin dags_to_watch'[key[1]].runs]_vars

\* The last event named a taskless run of a watched dag, found in persistence, and
\* the dag has one run less to wait for.
C15_Witness ==
  /\ base_event # NoEvent
  /\ lookup = FromFind
  /\ ~raised
  /\ LET d == base_event.key[1]
         ld == base_event.key[3]
     IN /\ <<d, ld>> \in dag_run
        /\ get_task_instances(d, ld) = {}
        /\ d \in DOMAIN dags_to_watch
        /\ dags_to_watch[d].waiting_for = NumRuns - 1
        /\ ld \notin dags_to_watch[d].runs

\* C16: an event for a dag that is not in dags_to_watch leaves the tracker as it
\* is: dags_to_watch (waiting_for and caches) and the stop instruction unchanged,
\* no run looked up, nothing raised, nothing logged.
C16_UnwatchedEventIsNoOp ==
  [][\A key \in EventKeys, state \in EventStates, info \in Infos :
       (ExecutorEvent(key, state, info) /\ key[1] \notin DOMAIN dags_to_watch)
       => /\ dags_to_watch' = dags_to_watch
          /\ num_runs' = num_runs
          /\ lookup' = NoLookup
          /\ ~raised'
          /\ log' = NoLog
          /\ pc' = pc]_vars

\* The last event named a run that persistence does not hold, of a dag that is
\* not watched while another dag is.
C16_Witness ==
  /\ base_event # NoEvent
  /\ base_event.key[1] \notin DOMAIN dags_to_watch
  /\ <<base_event.key[1], base_event.key[3]>> \notin dag_run
  /\ DOMAIN dags_to_watch # {}
  /\ lookup = NoLookup
  /\ ~raised
  /\ pc = "running"

\* C17: for any --num-runs, every entry of dags_to_watch has
\* 1 <= waiting_for <= num_runs_per_dag in every state, and a change_state call
\* never raises the waiting_for of a dag it leaves in dags_to_watch (an entry
\* that reaches zero is removed by the call that takes it there).
C17_WaitingForInRange ==
  /\ [](\A d \in DOMAIN dags_to_watch :
          1 <= dags_to_watch[d].waiting_for /\ dags_to_watch[d].waiting_for <= num_runs_per_dag)
  /\ [][\A key \in EventKeys, state \in EventStates, info \in Infos :
          ExecutorEvent(key, state, info) =>
            \A d \in DOMAIN dags_to_watch' :
              /\ d \in DOMAIN dags_to_watch
              /\ dags_to_watch'[d].waiting_for <= dags_to_watch[d].waiting_for
              /\ dags_to_watch'[d].waiting_for > 0]_vars

\* C18: an event for a run that is in the cache of its watched dag is judged by
\* the task instances as they are in persistence at that event, whichever task
\* and state the event carries: if all are SUCCESS the call counts the run (it
\* evicts it and takes one off waiting_for), and otherwise it leaves it cached
\* and waiting_for as it is.
C18_CachedRunRescanned ==
  [][\A key \in EventKeys, state \in EventStates, info \in Infos :
       (/\ ExecutorEvent(key, state, info)
        /\ key[1] \in DOMAIN dags_to_watch
        /\ key[3] \in dags_to_watch[key[1]].runs)
       => /\ ~raised'
          /\ lookup' = FromCache
          /\ IF <<key[1], key[3]>> \in CompleteRuns(key[1])
             THEN IF dags_to_watch[key[1]].waiting_for = 1
                  THEN key[1] \notin DOMAIN dags_to_watch'
                  ELSE /\ key[1] \in DOMAIN dags_to_watch'
                       /\ dags_to_watch'[key[1]].waiting_for =
                            dags_to_watch[key[1]].waiting_for - 1
                       /\ key[3] \notin dags_to_watch'[key[1]].runs
             ELSE dags_to_watch' = dags_to_watch]_vars

\* The last event named a run that was in the cache, and the call evicted it:
\* a run cached while incomplete was judged complete by a later event.
C18_Witness ==
  /\ base_event # NoEvent
  /\ lookup = FromCache
  /\ ~raised
  /\ base_event.key[1] \in DOMAIN dags_to_watch
  /\ base_event.key[3] \notin dags_to_watch[base_event.key[1]].runs
  /\ dags_to_watch[base_event.key[1]].waiting_for = NumRuns - 1

\* C19: the cache of every dag in dags_to_watch holds only runs of that dag that
\* are in persistence and have task instances; a change_state call changes the
\* cache of the event's dag only, and there only as to the event's run, which it
\* leaves cached exactly when it is found with a task instance not in SUCCESS;
\* the call that takes one off waiting_for leaves the run out of the cache, and
\* a call that raises changes nothing.
C19_CacheHoldsIncompleteRuns ==
  /\ [](\A d \in DOMAIN dags_to_watch : \A ld \in dags_to_watch[d].runs :
          <<d, ld>> \in dag_run /\ \E k \in DOMAIN task_instance : k[1] = d /\ k[2] = ld)
  /\ [][\A key \in EventKeys, state \in EventStates, info \in Infos :
          ExecutorEvent(key, state, info) =>
            /\ raised' => dags_to_watch' = dags_to_watch
            /\ \A d \in DOMAIN dags_to_watch' :
                 /\ d \in DOMAIN dags_to_watch
                 /\ dags_to_watch'[d].runs \ {key[3]} = dags_to_watch[d].runs \ {key[3]}
                 /\ d # key[1] => dags_to_watch'[d] = dags_to_watch[d]
                 /\ (d = key[1] /\ ~raised') =>
                      /\ key[3] \in dags_to_watch'[d].runs <=>
                           (/\ <<d, key[3]>> \in dag_run
                            /\ \E k \in DOMAIN task_instance :
                                  k[1] = d /\ k[2] = key[3] /\ task_instance[k] # SUCCESS)
                      /\ dags_to_watch'[d].waiting_for # dags_to_watch[d].waiting_for
                           => key[3] \notin dags_to_watch'[d].runs]_vars

\* A run is in the cache with one task instance in SUCCESS and another not, after
\* an event that found it there and left it there.
C19_Witness ==
  /\ base_event # NoEvent
  /\ lookup = FromCache
  /\ base_event.key[1] \in DOMAIN dags_to_watch
  /\ base_event.key[3] \in dags_to_watch[base_event.key[1]].runs
  /\ \E k \in DOMAIN task_instance :
        /\ k[1] = base_event.key[1] /\ k[2] = base_event.key[3]
        /\ task_instance[k] = SUCCESS

\* C20: once dags_to_watch is empty it stays empty until a reset, and every
\* change_state call made meanwhile hands its event to the base executor and
\* does nothing else: it reports no completion, leaves the stop instruction and
\* dags_to_watch as they are, raises nothing and leaves the loop and the rows of
\* persistence alone.
C20_CompletionReportedOnce ==
  /\ [][\A key \in EventKeys, state \in EventStates, info \in Infos :
          (ExecutorEvent(key, state, info) /\ DOMAIN dags_to_watch = {})
          => /\ base_event' = [key |-> key, state |-> state, info |-> info]
             /\ log' # STOPPING
             /\ num_runs' = num_runs
             /\ dags_to_watch' = dags_to_watch
             /\ ~raised'
             /\ pc' = pc
             /\ UNCHANGED db_vars]_vars
  /\ [][(DOMAIN dags_to_watch = {} /\ DOMAIN dags_to_watch' # {})
          => \E ids \in SUBSET DagIds \ {{}} : ResetCall(ids)]_vars

\* After the stop instruction an event of the watched dag itself came in and was
\* only handed on.
C20_Witness ==
  /\ DOMAIN dags_to_watch = {}
  /\ Stopped
  /\ base_event # NoEvent
  /\ base_event.key[1] \in dag_ids
  /\ log = NoLog
  /\ lookup = NoLookup
  /\ ~raised

====
